---- MODULE Spec2Model ----
(***************************************************************************)
(* A model of carteruu/cacher (src/cacher.go): the cache-aside helper      *)
(* Cacher.Get / Cacher.GetWithOption over a Repo, with the singleflight    *)
(* group that coalesces concurrent misses and the reflect based coercion   *)
(* of the cached or queried value into the caller's destination.           *)
(*                                                                         *)
(* Shapes (reflect.Type) are restricted to int, string and bool; a value   *)
(* is a record [t |-> shape, v |-> payload]; the untyped nil is Nil.       *)
(***************************************************************************)
EXTENDS Integers, Sequences, FiniteSets, TLC

\* ---------------------------------------------------------------- bounds

\* Number of goroutines that call Get / GetWithOption on the one Cacher.
NumCallers == 2

\* The expire given to New (README: 10*time.Second), in model time units.
DefaultExpire == 10

\* The NilCacheExpire a caller's optFn sets to switch negative caching on.
NilTTL == 1

\* The Expire a caller's optFn sets below ten units (Expire/10 is 0) and
\* above the default (Expire/10 is more than 1).
ShortExpire == 5

LongExpire == 20

Callers == 1..NumCallers

Keys == {"k1", "k2"}

\* The keys the callers of Spec ask for.
HotKeys == {"k1"}

\* ---------------------------------------------------------------- values

Types == {"int", "string", "bool"}

Nil == [t |-> "nil", v |-> 0]

IntV(n) == [t |-> "int", v |-> n]

StrV(s) == [t |-> "string", v |-> s]

BoolV(b) == [t |-> "bool", v |-> b]

NoErr == "nil"

\* reflect.Zero(toType).Interface()
Zero(t) ==
  CASE t = "int" -> IntV(0)
    [] t = "string" -> StrV("")
    [] t = "bool" -> BoolV(FALSE)

\* string(rune(n)) for the integers of the model: 55 is the digit 7, the
\* others are control characters, written by their code point.
RuneString(n) ==
  CASE n = 55 -> "7"
    [] n = 0 -> "U+0000"
    [] n = 1 -> "U+0001"
    [] n = 7 -> "U+0007"
    [] n = 9 -> "U+0009"
    [] OTHER -> "U+FFFD"

\* reflect.Value.CanConvert: identical shapes, and integer to string.
CanConvert(from, toType) ==
  \/ from.t = toType
  \/ from.t = "int" /\ toType = "string"

\* Convert that returns the zero value of the target type.
ConvertToZero(from, toType) == Zero(toType)

\* reflect.Value.Convert
Convert(from, toType) ==
  IF from.t = toType THEN from ELSE StrV(RuneString(from.v))

\* strconv.Atoi and strconv.ParseBool on the strings of the model; a result
\* is the pair (interface{}, error) the converter's Fn returns.
Atoi(s) ==
  CASE s = "7" -> [val |-> IntV(7), err |-> NoErr]
    [] s = "1" -> [val |-> IntV(1), err |-> NoErr]
    [] s = "0" -> [val |-> IntV(0), err |-> NoErr]
    [] OTHER -> [val |-> IntV(0), err |-> "ErrSyntax"]

ParseBool(s) ==
  CASE s \in {"1", "t", "T", "TRUE", "true", "True"} -> [val |-> BoolV(TRUE), err |-> NoErr]
    [] s \in {"0", "f", "F", "FALSE", "false", "False"} -> [val |-> BoolV(FALSE), err |-> NoErr]
    [] OTHER -> [val |-> BoolV(FALSE), err |-> "ErrSyntax"]

\* strconv.Itoa on the integers of the model.
Itoa(n) ==
  CASE n = 0 -> "0"
    [] n = 1 -> "1"
    [] n = 7 -> "7"
    [] n = 9 -> "9"
    [] n = 55 -> "55"
    [] n = 56 -> "56"
    [] OTHER -> "?"

\* TypeConverter.Fn, by the name of the function: the two default converters
\* and the functions a caller registers or passes in opt.Converters, which are
\*   Itoa    func(src) { return strconv.Itoa(src.(int)), nil }
\*   Answer  func(src) { return 42, nil }
\*   Succ    func(src) { return src.(int) + 1, nil }
\*   Fail    func(src) { return nil, errors.New(...) }
\*   NonZero func(src) { return src.(int) != 0, nil }
ApplyFn(fn, src) ==
  CASE fn = "Atoi" -> Atoi(src.v)
    [] fn = "ParseBool" -> ParseBool(src.v)
    [] fn = "Itoa" -> [val |-> StrV(Itoa(src.v)), err |-> NoErr]
    [] fn = "Answer" -> [val |-> IntV(42), err |-> NoErr]
    [] fn = "Succ" -> [val |-> IntV(src.v + 1), err |-> NoErr]
    [] fn = "NonZero" -> [val |-> BoolV(src.v # 0), err |-> NoErr]
    [] OTHER -> [val |-> Nil, err |-> "ErrConv"]

\* A TypeConverter: SrcType, DstType (by their reflect.Type) and Fn.
Converter(s, d, f) == [SrcType |-> s, DstType |-> d, Fn |-> f]

NoConv == "none"

\* The default converters New registers, for the shapes of the model.
typeConverters ==
  << Converter("string", "bool", "ParseBool"), Converter("string", "int", "Atoi") >>

TypePairs == Types \X Types

\* RegisterInto that keeps the converter a pair already has.
RegisterIntoKeepFirst(reg, conv) ==
  IF reg[<<conv.SrcType, conv.DstType>>] # NoConv THEN reg
  ELSE [reg EXCEPT ![<<conv.SrcType, conv.DstType>>] = conv.Fn]

\* RegisterConverter: c.typeConv[typePair{...}] = converter
RegisterInto(reg, conv) ==
  [reg EXCEPT ![<<conv.SrcType, conv.DstType>>] = conv.Fn]

RECURSIVE RegisterAll(_, _)
RegisterAll(reg, convs) ==
  IF convs = << >> THEN reg
  ELSE RegisterAll(RegisterInto(reg, Head(convs)), Tail(convs))

\* The function of the last converter of convs for the pair pr.
RECURSIVE LastFor(_, _)
LastFor(convs, pr) ==
  IF convs = << >> THEN NoConv
  ELSE LET c == convs[Len(convs)] IN
       IF <<c.SrcType, c.DstType>> = pr THEN c.Fn
       ELSE LastFor(SubSeq(convs, 1, Len(convs) - 1), pr)

\* New: the registry after the default converters are registered.
NewTypeConv == RegisterAll([pr \in TypePairs |-> NoConv], typeConverters)

\* ------------------------------------------------------------- coercion

\* The index of the first converter of opt.Converters whose SrcType and
\* DstType are the pair (fromType, toType), or 0 (the loop at line 234).
RECURSIVE FirstMatch(_, _, _, _)
FirstMatch(convs, i, fromType, toType) ==
  IF i > Len(convs) THEN 0
  ELSE IF convs[i].SrcType = fromType /\ convs[i].DstType = toType THEN i
  ELSE FirstMatch(convs, i + 1, fromType, toType)

\* A matched converter is applied: an error aborts with useCache = false,
\* a nil result writes the zero value, any other result is written.
ApplyConv(fn, from, to, toType, useCache) ==
  LET r == ApplyFn(fn, from) IN
  IF r.err # NoErr THEN [to |-> to, useCache |-> FALSE, err |-> r.err]
  ELSE IF r.val # Nil THEN [to |-> r.val, useCache |-> useCache, err |-> NoErr]
  ELSE [to |-> Zero(toType), useCache |-> useCache, err |-> NoErr]

\* CoerceInto with  return false, nil  where the code returns useCache.
CoerceIntoFalse(from, to, toType, convs, reg, useCache) ==
  LET i == FirstMatch(convs, 1, from.t, toType) IN
  IF i # 0 THEN ApplyConv(convs[i].Fn, from, to, toType, FALSE)
  ELSE IF CanConvert(from, toType)
    THEN [to |-> Convert(from, toType), useCache |-> FALSE, err |-> NoErr]
  ELSE IF reg[<<from.t, toType>>] # NoConv
    THEN ApplyConv(reg[<<from.t, toType>>], from, to, toType, FALSE)
  ELSE [to |-> to, useCache |-> FALSE, err |-> "ErrUnsupported"]

\* CoerceInto that tries reflect's conversion before opt.Converters.
CoerceIntoNativeFirst(from, to, toType, convs, reg, useCache) ==
  LET i == FirstMatch(convs, 1, from.t, toType) IN
  IF CanConvert(from, toType)
    THEN [to |-> Convert(from, toType), useCache |-> useCache, err |-> NoErr]
  ELSE IF i # 0 THEN ApplyConv(convs[i].Fn, from, to, toType, useCache)
  ELSE IF reg[<<from.t, toType>>] # NoConv
    THEN ApplyConv(reg[<<from.t, toType>>], from, to, toType, useCache)
  ELSE [to |-> to, useCache |-> FALSE, err |-> "ErrUnsupported"]

\* Lines 232-266: opt.Converters first, then reflect's conversion, then the
\* registered converters, else the unsupported conversion error.
CoerceInto(from, to, toType, convs, reg, useCache) ==
  LET i == FirstMatch(convs, 1, from.t, toType) IN
  IF i # 0 THEN ApplyConv(convs[i].Fn, from, to, toType, useCache)
  ELSE IF CanConvert(from, toType)
    THEN [to |-> Convert(from, toType), useCache |-> useCache, err |-> NoErr]
  ELSE IF reg[<<from.t, toType>>] # NoConv
    THEN ApplyConv(reg[<<from.t, toType>>], from, to, toType, useCache)
  ELSE [to |-> to, useCache |-> FALSE, err |-> "ErrUnsupported"]

\* --------------------------------------------------------------- inputs

\* What the destination holds before the call, by its shape.
Prior(t) ==
  CASE t = "int" -> IntV(9)
    [] t = "string" -> StrV("old")
    [] t = "bool" -> BoolV(TRUE)

\* The destination v: a pointer to a typed variable, or a pointer to an
\* interface{} variable that holds a value of dynamic type t.
Dst(kd, t) == [kind |-> kd, t |-> t, val |-> Prior(t)]

Dsts == { Dst("typed", t) : t \in Types } \cup { Dst("iface", "int") }

\* The optFn a caller passes: nil (Get), or one that switches the caching of
\* "no data" on, without or with NilData.
OptFns == {"nil", "cacheNil", "cacheNilData"}

\* The other optFns: one that sets Expire (to 0, below 0, to ShortExpire, to
\* LongExpire), one that sets Converters.
ExpireFns == {"expire0", "expireNeg", "expireShort", "expireLong"}

ConverterFns == {"convs", "convSame"}

\* The opt.Converters the optFn "convs" sets: for int to string (which reflect
\* converts too) two converters, of which the loop takes the first, for
\* string to int (which the registry converts too) one, and for bool to int
\* one that fails; "convSame" sets one for int to int, "convFail" one for int
\* to bool that fails.
CallConverters(optFn) ==
  CASE optFn = "convs" ->
         << Converter("int", "string", "Itoa"), Converter("string", "int", "Answer"),
            Converter("int", "string", "Fail"), Converter("bool", "int", "Fail") >>
    [] optFn = "convSame" -> << Converter("int", "int", "Succ") >>
    [] optFn = "convFail" -> << Converter("int", "bool", "Fail") >>
    [] OTHER -> << >>

\* MakeOpt that starts from Option{}, without Expire: c.expire.
MakeOptZero(expire, optFn) ==
  [ Expire |-> CASE optFn = "expire0" -> 0
                 [] optFn = "expireNeg" -> 0 - 1
                 [] optFn = "expireShort" -> ShortExpire
                 [] optFn = "expireLong" -> LongExpire
                 [] OTHER -> 0,
    NilData |-> IF optFn = "cacheNilData" THEN StrV("1") ELSE Nil,
    NilCacheExpire |-> IF optFn \in {"cacheNil", "cacheNilData"} THEN NilTTL ELSE 0,
    Converters |-> CallConverters(optFn) ]

\* Lines 164-167: Option{Expire: c.expire}, then optFn(&opt).
MakeOpt(expire, optFn) ==
  [ Expire |-> CASE optFn = "expire0" -> 0
                 [] optFn = "expireNeg" -> 0 - 1
                 [] optFn = "expireShort" -> ShortExpire
                 [] optFn = "expireLong" -> LongExpire
                 [] OTHER -> expire,
    NilData |-> IF optFn = "cacheNilData" THEN StrV("1") ELSE Nil,
    NilCacheExpire |-> IF optFn \in {"cacheNil", "cacheNilData"} THEN NilTTL ELSE 0,
    Converters |-> CallConverters(optFn) ]

\* Option.Valid
Valid(o) == IF o.Expire <= 0 THEN "ErrExpire" ELSE NoErr

\* Validate without the check of the option.
ValidateArgsOnly(k, qf, o) ==
  IF k = "" THEN "ErrKey"
  ELSE IF ~qf THEN "ErrQueryFunc"
  ELSE NoErr

\* Lines 157-170: the checks of key, queryFunc (qf: it is not nil) and of the
\* option after optFn ran; the error the call returns, or nil.
Validate(k, qf, o) ==
  IF k = "" THEN "ErrKey"
  ELSE IF ~qf THEN "ErrQueryFunc"
  ELSE Valid(o)

\* Option.isCacheNil
isCacheNil(o) == o.NilCacheExpire > 0

\* What queryFunc may return: an error, no data, or a value.
QueryResults ==
  { [val |-> Nil, err |-> "ErrQuery"], [val |-> Nil, err |-> NoErr],
    [val |-> IntV(55), err |-> NoErr] }

\* rand.Int63n(int64(opt.Expire)/10): the values 0 .. Expire/10 - 1.
Jitter(expire) == 0 .. ((expire \div 10) - 1)

\* The random numbers the closure may draw once queryFunc returned r: it calls
\* rand.Int63n on the path of a queried value only (line 217).
JitterFor(o, r) ==
  IF r.err # NoErr \/ r.val = Nil THEN {0} ELSE Jitter(o.Expire)

\* ----------------------------------------------------------------- state

NoEntry == [data |-> Nil, expire |-> 0]

NoCall == [leader |-> 0, val |-> Nil, err |-> NoErr, nset |-> 0, out |-> "none"]

NoOpt == MakeOpt(0, "nil")

NoDst == [kind |-> "none", t |-> "nil", val |-> Nil]

VARIABLES
  repo,      \* the Repo's content: key -> the value and expire Set was given
  expire,    \* Cacher.expire
  sf,        \* Cacher.sf: key -> the call in flight (singleflight's g.m)
  typeConv,  \* Cacher.typeConv
  lastReg,   \* pair -> the function of the converter whose registration for the
             \*         pair was the last to be accepted
  pc,        \* where each goroutine is in GetWithOption
  key,       \* the arguments of the call: key, queryFunc (TRUE: it is not
  queryFunc, \* nil), v (the destination), opt (the Option after optFn ran)
  ctx,       \* and ctx, "live" until the caller cancels it
  v,
  opt,
  to,        \* the reflect.Value the result is written to
  from,      \* cacheData, then sfVal
  err,
  useCache,
  pend,      \* the value and expire the closure is about to Set
  miss,      \* the probe found no cache
  role,      \* in sf.Do: "leader" runs the closure, "waiter" shares its result
  nq,        \* while the call is between its probe and the return of its sf.Do:
             \* the queryFunc calls on its key since the probe
  did,       \* what the call itself did: called repo.Get (which returned "ok" or
             \* "err"), called queryFunc, called repo.Set, registered a
             \* converter from its optFn; and del, while the call is in its
             \* closure: the entry of its key was deleted by Del after its
             \* queryFunc returned and before its repo.Set
  out,       \* what the execution the call shared came to
  negDone,   \* key -> "set": "no data" was cached and the entry not removed since;
             \*        "done": and the call that cached it has returned
  cached,    \* key -> the Get that returned a queried value the Repo still holds
  seen       \* negDone[key] when the call probed

args == <<key, queryFunc, ctx, v, opt>>

locals == <<to, from, err, useCache, pend, miss, role, did, out, seen>>

vars == <<repo, expire, sf, typeConv, lastReg, pc, key, ctx, queryFunc, v, opt, to, from, err, useCache,
          pend, miss, role, nq, did, out, negDone, cached, seen>>

NoDid == [get |-> "none", query |-> FALSE, set |-> FALSE, reg |-> FALSE, del |-> FALSE]

NoCached == [t |-> "nil", val |-> Nil, src |-> Nil]

\* New(repo, expire) with an empty Repo; every goroutine is outside a call.
Init ==
  /\ repo = [k \in Keys |-> NoEntry]
  /\ expire = DefaultExpire
  /\ sf = [k \in Keys |-> NoCall]
  /\ typeConv = NewTypeConv
  /\ lastReg = [pr \in TypePairs |-> LastFor(typeConverters, pr)]
  /\ pc = [p \in Callers |-> "idle"]
  /\ key = [p \in Callers |-> ""]
  /\ queryFunc = [p \in Callers |-> FALSE]
  /\ ctx = [p \in Callers |-> "live"]
  /\ v = [p \in Callers |-> NoDst]
  /\ opt = [p \in Callers |-> NoOpt]
  /\ to = [p \in Callers |-> Nil]
  /\ from = [p \in Callers |-> Nil]
  /\ err = [p \in Callers |-> NoErr]
  /\ useCache = [p \in Callers |-> FALSE]
  /\ pend = [p \in Callers |-> NoEntry]
  /\ miss = [p \in Callers |-> FALSE]
  /\ role = [p \in Callers |-> "none"]
  /\ nq = [p \in Callers |-> 0]
  /\ did = [p \in Callers |-> NoDid]
  /\ out = [p \in Callers |-> "none"]
  /\ negDone = [k \in Keys |-> "no"]
  /\ cached = [k \in Keys |-> NoCached]
  /\ seen = [p \in Callers |-> FALSE]

\* -------------------------------------------------------------- actions

\* Between its probe and the return of its sf.Do.
InDo(p) == pc[p] \in {"sfdo", "wait", "query", "set", "sfdone"}

\* Probe that never finds the entry.
ProbeAbsent(k) == Nil

\* c.repo.Get(ctx, k) without an error: the entry's value, nil when absent.
Probe(k) == repo[k].data

\* ProbeResult that drops the Repo's error.
ProbeResultNoErr(k, got) == [data |-> IF got THEN Probe(k) ELSE Nil, err |-> NoErr]

\* cacheData, err := c.repo.Get(ctx, k): the Repo answers (got) or fails.
ProbeResult(k, got) ==
  IF got THEN [data |-> Probe(k), err |-> NoErr]
  ELSE [data |-> Nil, err |-> "ErrRepoGet"]

\* The converter the optFn "regConv" registers with c.RegisterConverter while
\* it runs, for a pair that has no default converter and no conversion:
\*   NonZero  func(src) { return src.(int) != 0, nil }
OptFnConv == Converter("int", "bool", "NonZero")

\* The optFns that register a converter.
RegFns == {"regConv"}

\* Lines 157-162 and 168-192 of GetWithOption: the checks of the arguments
\* and of the option o, which return at once; then the destination's
\* reflect.Value (for an interface{} destination a new zero value of its
\* dynamic type, written back by the deferred oldTo.Set(to)) and the probe
\* repo.Get, which fails (got = FALSE) or returns the entry, nil when there
\* is none.
Entry(p, k, qf, d, o, got) ==
  /\ LET to0 == IF d.kind = "iface" THEN Zero(d.t) ELSE d.val
         bad == Validate(k, qf, o)
         g == ProbeResult(k, got) IN
     IF bad # NoErr
       THEN /\ err' = [err EXCEPT ![p] = bad]
            /\ v' = [v EXCEPT ![p] = d]
            /\ pc' = [pc EXCEPT ![p] = "done"]
            /\ UNCHANGED <<to, from, useCache, miss, did, seen>>
       ELSE /\ to' = [to EXCEPT ![p] = to0]
            /\ seen' = [seen EXCEPT ![p] = (negDone[k] = "done")]
            /\ did' = [did EXCEPT ![p].get = IF got THEN "ok" ELSE "err"]
            /\ IF g.err # NoErr
                 THEN /\ err' = [err EXCEPT ![p] = g.err]
                      /\ v' = [v EXCEPT ![p] = [d EXCEPT !.val = to0]]
                      /\ pc' = [pc EXCEPT ![p] = "done"]
                      /\ UNCHANGED <<from, useCache, miss>>
                 ELSE /\ from' = [from EXCEPT ![p] = g.data]
                      /\ useCache' = [useCache EXCEPT ![p] = TRUE]
                      /\ miss' = [miss EXCEPT ![p] = (g.data = Nil)]
                      /\ v' = [v EXCEPT ![p] = d]
                      /\ pc' = [pc EXCEPT ![p] = IF g.data = Nil THEN "sfdo" ELSE "coerce"]
                      /\ UNCHANGED err
  /\ UNCHANGED <<repo, expire, sf, ctx, pend, role, nq, out, negDone, cached>>

\* GetWithOption(ctx, k, queryFunc, d, optFn), lines 157-192. An optFn that
\* registers a converter is run once the key and queryFunc are accepted
\* (line 166), and the call is then at the write of Cacher.typeConv; with
\* any other optFn the call goes on to the probe at once.
GetWithOption(p, k, qf, d, optFn, got) ==
  /\ pc[p] = "idle"
  /\ key' = [key EXCEPT ![p] = k]
  /\ queryFunc' = [queryFunc EXCEPT ![p] = qf]
  /\ opt' = [opt EXCEPT ![p] = MakeOpt(expire, optFn)]
  /\ UNCHANGED <<typeConv, lastReg>>
  /\ IF optFn \in RegFns /\ k # "" /\ qf
       THEN /\ pc' = [pc EXCEPT ![p] = "regwrite"]
            /\ v' = [v EXCEPT ![p] = d]
            /\ did' = [did EXCEPT ![p].reg = TRUE]
            /\ UNCHANGED <<repo, expire, sf, ctx, to, from, err, useCache, pend, miss, role,
                           nq, out, negDone, cached, seen>>
       ELSE Entry(p, k, qf, d, MakeOpt(expire, optFn), got)

\* RegWrite in which the write waits until no other goroutine is at the
\* registry.
RegWriteLocked(p, got) ==
  /\ pc[p] = "regwrite"
  /\ \A q \in Callers \ {p} : pc[q] \notin {"regwrite", "coerce"}
  /\ typeConv' = RegisterInto(typeConv, OptFnConv)
  /\ lastReg' = [lastReg EXCEPT ![<<OptFnConv.SrcType, OptFnConv.DstType>>] = OptFnConv.Fn]
  /\ Entry(p, key[p], queryFunc[p], v[p], opt[p], got)
  /\ UNCHANGED <<key, queryFunc, opt>>

\* RegWrite that loses the converter.
RegWriteLost(p, got) ==
  /\ pc[p] = "regwrite"
  /\ Entry(p, key[p], queryFunc[p], v[p], opt[p], got)
  /\ UNCHANGED <<typeConv, lastReg, key, queryFunc, opt>>

\* The optFn's c.RegisterConverter(OptFnConv) writes c.typeConv (line 136)
\* and optFn returns; the call goes on with opt.Valid, the destination and
\* the probe.
RegWrite(p, got) ==
  /\ pc[p] = "regwrite"
  /\ typeConv' = RegisterInto(typeConv, OptFnConv)
  /\ lastReg' = [lastReg EXCEPT ![<<OptFnConv.SrcType, OptFnConv.DstType>>] = OptFnConv.Fn]
  /\ Entry(p, key[p], queryFunc[p], v[p], opt[p], got)
  /\ UNCHANGED <<key, queryFunc, opt>>

\* InFlight that finds the call in flight of any key.
InFlightAnyKey(k) == \E k2 \in Keys : sf[k2].leader # 0

\* InFlight that never finds the call in flight.
InFlightNever(k) == FALSE

\* singleflight's  if c, ok := g.m[key]; ok
InFlight(k) == sf[k].leader # 0

\* SfDo in which a caller that finds a call in flight returns without waiting.
SfDoNoWait(p) ==
  /\ pc[p] = "sfdo"
  /\ IF InFlight(key[p])
       THEN /\ role' = [role EXCEPT ![p] = "waiter"]
            /\ pc' = [pc EXCEPT ![p] = "coerce"]
            /\ UNCHANGED sf
       ELSE /\ role' = [role EXCEPT ![p] = "leader"]
            /\ pc' = [pc EXCEPT ![p] = "query"]
            /\ sf' = [sf EXCEPT ![key[p]] = [NoCall EXCEPT !.leader = p]]
  /\ UNCHANGED <<repo, expire, typeConv, lastReg, key, ctx, queryFunc, v, opt, to, from, err, useCache, pend,
                 miss, nq, did, out, negDone, cached, seen>>

\* c.sf.Do(key, fn), entered: the first caller of a key runs fn, a caller that
\* finds a call in flight waits for it.
SfDo(p) ==
  /\ pc[p] = "sfdo"
  /\ IF InFlight(key[p])
       THEN /\ role' = [role EXCEPT ![p] = "waiter"]
            /\ pc' = [pc EXCEPT ![p] = "wait"]
            /\ UNCHANGED sf
       ELSE /\ role' = [role EXCEPT ![p] = "leader"]
            /\ pc' = [pc EXCEPT ![p] = "query"]
            /\ sf' = [sf EXCEPT ![key[p]] = [NoCall EXCEPT !.leader = p]]
  /\ UNCHANGED <<repo, expire, typeConv, lastReg, key, ctx, queryFunc, v, opt, to, from, err, useCache, pend,
                 miss, nq, did, out, negDone, cached, seen>>

\* Closure that returns a queried value without repo.Set.
ClosureNoSet(o, toType, r, j) ==
  IF r.err # NoErr
    THEN [set |-> FALSE, val |-> Nil, err |-> r.err, pend |-> NoEntry, out |-> "error"]
  ELSE IF r.val = Nil
    THEN IF ~isCacheNil(o)
           THEN [set |-> FALSE, val |-> Nil, err |-> NoErr, pend |-> NoEntry, out |-> "nodata"]
           ELSE LET nilFrom == IF o.NilData # Nil THEN o.NilData ELSE Zero(toType) IN
                [set |-> TRUE, val |-> nilFrom, err |-> NoErr,
                 pend |-> [data |-> nilFrom, expire |-> o.NilCacheExpire], out |-> "neg"]
  ELSE [set |-> FALSE, val |-> r.val, err |-> NoErr, pend |-> NoEntry, out |-> "value"]

\* Closure that caches the zero value whatever opt.NilData is.
ClosureNilZero(o, toType, r, j) ==
  IF r.err # NoErr
    THEN [set |-> FALSE, val |-> Nil, err |-> r.err, pend |-> NoEntry, out |-> "error"]
  ELSE IF r.val = Nil
    THEN IF ~isCacheNil(o)
           THEN [set |-> FALSE, val |-> Nil, err |-> NoErr, pend |-> NoEntry, out |-> "nodata"]
           ELSE [set |-> TRUE, val |-> Zero(toType), err |-> NoErr,
                 pend |-> [data |-> Zero(toType), expire |-> o.NilCacheExpire], out |-> "neg"]
  ELSE [set |-> TRUE, val |-> r.val, err |-> NoErr,
        pend |-> [data |-> r.val, expire |-> o.Expire + j], out |-> "value"]

\* Closure that returns nil, nil when queryFunc fails.
ClosureErrLost(o, toType, r, j) ==
  IF r.err # NoErr
    THEN [set |-> FALSE, val |-> Nil, err |-> NoErr, pend |-> NoEntry, out |-> "error"]
  ELSE IF r.val = Nil
    THEN IF ~isCacheNil(o)
           THEN [set |-> FALSE, val |-> Nil, err |-> NoErr, pend |-> NoEntry, out |-> "nodata"]
           ELSE LET nilFrom == IF o.NilData # Nil THEN o.NilData ELSE Zero(toType) IN
                [set |-> TRUE, val |-> nilFrom, err |-> NoErr,
                 pend |-> [data |-> nilFrom, expire |-> o.NilCacheExpire], out |-> "neg"]
  ELSE [set |-> TRUE, val |-> r.val, err |-> NoErr,
        pend |-> [data |-> r.val, expire |-> o.Expire + j], out |-> "value"]

\* Lines 196-217, what the closure does with queryFunc's result r: it returns
\* at once (set = FALSE) with (val, err), or goes on to repo.Set(pend).
Closure(o, toType, r, j) ==
  IF r.err # NoErr
    THEN [set |-> FALSE, val |-> Nil, err |-> r.err, pend |-> NoEntry, out |-> "error"]
  ELSE IF r.val = Nil
    THEN IF ~isCacheNil(o)
           THEN [set |-> FALSE, val |-> Nil, err |-> NoErr, pend |-> NoEntry, out |-> "nodata"]
           ELSE LET nilFrom == IF o.NilData # Nil THEN o.NilData ELSE Zero(toType) IN
                [set |-> TRUE, val |-> nilFrom, err |-> NoErr,
                 pend |-> [data |-> nilFrom, expire |-> o.NilCacheExpire], out |-> "neg"]
  ELSE [set |-> TRUE, val |-> r.val, err |-> NoErr,
        pend |-> [data |-> r.val, expire |-> o.Expire + j], out |-> "value"]

Bump(n) == IF n < 2 THEN n + 1 ELSE 2

\* The closure calls queryFunc, which returns r; j is the random jitter.
Query(p, r, j) ==
  /\ pc[p] = "query"
  /\ LET c == Closure(opt[p], v[p].t, r, j)
         k == key[p] IN
     /\ did' = [did EXCEPT ![p].query = TRUE]
     /\ nq' = [q \in Callers |-> IF InDo(q) /\ key[q] = k THEN Bump(nq[q]) ELSE nq[q]]
     /\ pend' = [pend EXCEPT ![p] = c.pend]
     /\ IF c.set
          THEN /\ pc' = [pc EXCEPT ![p] = "set"]
               /\ sf' = [sf EXCEPT ![k].out = c.out]
          ELSE /\ pc' = [pc EXCEPT ![p] = "sfdone"]
               /\ sf' = [sf EXCEPT ![k].val = c.val, ![k].err = c.err, ![k].out = c.out]
  /\ UNCHANGED <<repo, expire, typeConv, lastReg, key, ctx, queryFunc, v, opt, to, from, err, useCache,
                 miss, role, out, negDone, cached, seen>>

\* The closure calls queryFunc, which returns a value, and rand.Int63n is
\* given int64(opt.Expire)/10 = 0: it panics ("invalid argument to Int63n").
\* The panic leaves sf.Do (singleflight deletes the call and panics in the
\* leader and in the callers that wait) and GetWithOption, whose deferred
\* oldTo.Set(to) runs on the way out.
QueryPanic(p, r) ==
  /\ pc[p] = "query"
  /\ r.err = NoErr /\ r.val # Nil
  /\ Jitter(opt[p].Expire) = {}
  /\ LET k == key[p]
         woken == {q \in Callers : pc[q] = "wait" /\ key[q] = k} IN
     /\ did' = [did EXCEPT ![p].query = TRUE]
     /\ nq' = [q \in Callers |-> IF q = p \/ q \in woken THEN 0
                                  ELSE IF InDo(q) /\ key[q] = k THEN Bump(nq[q])
                                  ELSE nq[q]]
     /\ sf' = [sf EXCEPT ![k] = NoCall]
     /\ pc' = [q \in Callers |-> IF q = p \/ q \in woken THEN "panic" ELSE pc[q]]
     /\ v' = [q \in Callers |-> IF q = p \/ q \in woken THEN [v[q] EXCEPT !.val = to[q]]
                                 ELSE v[q]]
     /\ out' = [q \in Callers |-> IF q = p \/ q \in woken THEN "panic" ELSE out[q]]
  /\ UNCHANGED <<repo, expire, typeConv, lastReg, key, ctx, queryFunc, opt, to, from, err, useCache, pend,
                 miss, role, negDone, cached, seen>>

\* The error of a repo.Set that fails: the Repo is handed the ctx of the
\* caller that runs the closure, and a call on a canceled ctx fails with the
\* ctx's error.
SetErr(p) == IF ctx[p] = "canceled" THEN "ErrCanceled" ELSE "ErrRepoSet"

\* Lines 210-213 and 218-221: repo.Set(ctx, key, value, expire) succeeds
\* (ok) or fails; the closure returns the value, or the error.
RepoSet(p, ok) ==
  /\ pc[p] = "set"
  /\ LET k == key[p] IN
     /\ did' = [did EXCEPT ![p].set = TRUE]
     /\ IF ok
          THEN /\ repo' = [repo EXCEPT ![k] = pend[p]]
               /\ sf' = [sf EXCEPT ![k].val = pend[p].data, ![k].nset = @ + 1]
               /\ cached' = [cached EXCEPT ![k] = IF @.src = pend[p].data THEN @ ELSE NoCached]
               /\ negDone' = [negDone EXCEPT ![k] =
                    IF sf[k].out = "neg" /\ @ = "no" THEN "set" ELSE @]
          ELSE /\ sf' = [sf EXCEPT ![k].err = SetErr(p), ![k].nset = @ + 1, ![k].out = "seterr"]
               /\ UNCHANGED <<repo, cached, negDone>>
  /\ pc' = [pc EXCEPT ![p] = "sfdone"]
  /\ UNCHANGED <<expire, typeConv, lastReg, key, ctx, queryFunc, v, opt, to, from, err, useCache, pend,
                 miss, role, nq, out, seen>>

\* WaiterResult that loses the shared result.
WaiterResultNil(c) == [val |-> Nil, err |-> NoErr]

\* WaiterResult that loses the shared error.
WaiterResultNoErr(c) == [val |-> c.val, err |-> NoErr]

\* What sf.Do returns to a caller that waited:  return c.val, c.err, true
WaiterResult(c) == [val |-> c.val, err |-> c.err]

\* SfDone that keeps the finished call's result in g.m.
SfDoneKeep(p) ==
  /\ pc[p] = "sfdone"
  /\ LET k == key[p]
         c == sf[k]
         woken == {q \in Callers : pc[q] = "wait" /\ key[q] = k} IN
     /\ sf' = [sf EXCEPT ![k].leader = 0]
     /\ pc' = [q \in Callers |-> IF q = p \/ q \in woken THEN "coerce" ELSE pc[q]]
     /\ from' = [q \in Callers |-> IF q = p THEN c.val
                                   ELSE IF q \in woken THEN WaiterResult(c).val
                                   ELSE from[q]]
     /\ err' = [q \in Callers |-> IF q = p THEN c.err
                                  ELSE IF q \in woken THEN WaiterResult(c).err
                                  ELSE err[q]]
     /\ out' = [q \in Callers |-> IF q = p \/ q \in woken THEN c.out ELSE out[q]]
     /\ nq' = [q \in Callers |-> IF q = p \/ q \in woken THEN 0 ELSE nq[q]]
     /\ did' = [did EXCEPT ![p].del = FALSE]
  /\ UNCHANGED <<repo, expire, typeConv, lastReg, key, ctx, queryFunc, v, opt, to, useCache, pend,
                 miss, role, negDone, cached, seen>>

\* singleflight's doCall after fn returned: the call is done and deleted from
\* g.m, and sf.Do returns c.val, c.err to the leader and to every waiter.
SfDone(p) ==
  /\ pc[p] = "sfdone"
  /\ LET k == key[p]
         c == sf[k]
         woken == {q \in Callers : pc[q] = "wait" /\ key[q] = k} IN
     /\ sf' = [sf EXCEPT ![k] = NoCall]
     /\ pc' = [q \in Callers |-> IF q = p \/ q \in woken THEN "coerce" ELSE pc[q]]
     /\ from' = [q \in Callers |-> IF q = p THEN c.val
                                   ELSE IF q \in woken THEN WaiterResult(c).val
                                   ELSE from[q]]
     /\ err' = [q \in Callers |-> IF q = p THEN c.err
                                  ELSE IF q \in woken THEN WaiterResult(c).err
                                  ELSE err[q]]
     /\ out' = [q \in Callers |-> IF q = p \/ q \in woken THEN c.out ELSE out[q]]
     /\ nq' = [q \in Callers |-> IF q = p \/ q \in woken THEN 0 ELSE nq[q]]
     /\ did' = [did EXCEPT ![p].del = FALSE]
  /\ UNCHANGED <<repo, expire, typeConv, lastReg, key, ctx, queryFunc, v, opt, to, useCache, pend,
                 miss, role, negDone, cached, seen>>

\* Outcome without  useCache = false  after sf.Do (line 230).
OutcomeMissTrue(p) ==
  IF miss[p] /\ err[p] # NoErr
    THEN [to |-> to[p], useCache |-> FALSE, err |-> err[p]]
  ELSE IF miss[p] /\ from[p] = Nil
    THEN [to |-> to[p], useCache |-> FALSE, err |-> NoErr]
  ELSE CoerceInto(from[p], to[p], v[p].t, opt[p].Converters, typeConv, useCache[p])

\* Outcome that writes sfVal as it is, without the conversion.
OutcomeMissRaw(p) ==
  IF miss[p] /\ err[p] # NoErr
    THEN [to |-> to[p], useCache |-> FALSE, err |-> err[p]]
  ELSE IF miss[p] /\ from[p] = Nil
    THEN [to |-> to[p], useCache |-> FALSE, err |-> NoErr]
  ELSE IF miss[p]
    THEN [to |-> from[p], useCache |-> FALSE, err |-> NoErr]
  ELSE CoerceInto(from[p], to[p], v[p].t, opt[p].Converters, typeConv, useCache[p])

\* Outcome in which the conversion error of a caller that has returned is
\* the outcome of every caller that shared its execution.
OutcomeFailTogether(p) ==
  IF miss[p] /\ err[p] # NoErr
    THEN [to |-> to[p], useCache |-> FALSE, err |-> err[p]]
  ELSE IF miss[p] /\ from[p] = Nil
    THEN [to |-> to[p], useCache |-> FALSE, err |-> NoErr]
  ELSE IF \E q \in Callers \ {p} :
            /\ miss[p] /\ miss[q] /\ pc[q] = "done" /\ key[q] = key[p]
            /\ err[q] = "ErrUnsupported"
    THEN [to |-> to[p], useCache |-> FALSE, err |-> "ErrUnsupported"]
  ELSE CoerceInto(from[p], to[p], v[p].t, opt[p].Converters, typeConv,
                  IF miss[p] THEN FALSE ELSE useCache[p])

\* Lines 223-266 and the deferred oldTo.Set(to): what the call returns, and
\* the value the destination ends with.
Outcome(p) ==
  IF miss[p] /\ err[p] # NoErr
    THEN [to |-> to[p], useCache |-> FALSE, err |-> err[p]]
  ELSE IF miss[p] /\ from[p] = Nil
    THEN [to |-> to[p], useCache |-> FALSE, err |-> NoErr]
  ELSE CoerceInto(from[p], to[p], v[p].t, opt[p].Converters, typeConv,
                  IF miss[p] THEN FALSE ELSE useCache[p])

\* Coerce that takes the queried value out of the Repo again when the
\* conversion fails.
CoerceRollback(p) ==
  /\ pc[p] = "coerce"
  /\ LET r == Outcome(p)
         k == key[p] IN
     /\ to' = [to EXCEPT ![p] = r.to]
     /\ v' = [v EXCEPT ![p].val = r.to]
     /\ useCache' = [useCache EXCEPT ![p] = r.useCache]
     /\ err' = [err EXCEPT ![p] = r.err]
     /\ repo' = IF miss[p] /\ out[p] = "value" /\ r.err # NoErr
                 THEN [repo EXCEPT ![k] = NoEntry] ELSE repo
     /\ negDone' = [negDone EXCEPT ![k] =
          IF role[p] = "leader" /\ out[p] = "neg" /\ @ = "set" THEN "done" ELSE @]
     /\ cached' = [cached EXCEPT ![k] =
          IF miss[p] /\ out[p] = "value" /\ r.err = NoErr /\ repo[k].data = from[p]
             /\ opt[p] = MakeOpt(expire, "nil")
            THEN [t |-> v[p].t, val |-> r.to, src |-> from[p]]
            ELSE @]
  /\ pc' = [pc EXCEPT ![p] = "done"]
  /\ UNCHANGED <<expire, sf, typeConv, lastReg, key, ctx, queryFunc, opt, from, pend, miss,
                 role, nq, did, out, seen>>

\* Lines 223-266: the call leaves GetWithOption with its outcome; the Repo
\* is not touched.
Coerce(p) ==
  /\ pc[p] = "coerce"
  /\ LET r == Outcome(p)
         k == key[p] IN
     /\ to' = [to EXCEPT ![p] = r.to]
     /\ v' = [v EXCEPT ![p].val = r.to]
     /\ useCache' = [useCache EXCEPT ![p] = r.useCache]
     /\ err' = [err EXCEPT ![p] = r.err]
     /\ negDone' = [negDone EXCEPT ![k] =
          IF role[p] = "leader" /\ out[p] = "neg" /\ @ = "set" THEN "done" ELSE @]
     /\ cached' = [cached EXCEPT ![k] =
          IF miss[p] /\ out[p] = "value" /\ r.err = NoErr /\ repo[k].data = from[p]
             /\ opt[p] = MakeOpt(expire, "nil")
            THEN [t |-> v[p].t, val |-> r.to, src |-> from[p]]
            ELSE @]
  /\ pc' = [pc EXCEPT ![p] = "done"]
  /\ UNCHANGED <<repo, expire, sf, typeConv, lastReg, key, ctx, queryFunc, opt, from, pend, miss, role, nq,
                 did, out, seen>>

\* The call has returned; the goroutine is free for its next call.
Return(p) ==
  /\ pc[p] = "done"
  /\ pc' = [pc EXCEPT ![p] = "idle"]
  /\ key' = [key EXCEPT ![p] = ""]
  /\ queryFunc' = [queryFunc EXCEPT ![p] = FALSE]
  /\ v' = [v EXCEPT ![p] = NoDst]
  /\ opt' = [opt EXCEPT ![p] = NoOpt]
  /\ to' = [to EXCEPT ![p] = Nil]
  /\ from' = [from EXCEPT ![p] = Nil]
  /\ err' = [err EXCEPT ![p] = NoErr]
  /\ useCache' = [useCache EXCEPT ![p] = FALSE]
  /\ pend' = [pend EXCEPT ![p] = NoEntry]
  /\ miss' = [miss EXCEPT ![p] = FALSE]
  /\ role' = [role EXCEPT ![p] = "none"]
  /\ did' = [did EXCEPT ![p] = NoDid]
  /\ out' = [out EXCEPT ![p] = "none"]
  /\ seen' = [seen EXCEPT ![p] = FALSE]
  /\ ctx' = [ctx EXCEPT ![p] = "live"]
  /\ UNCHANGED <<repo, expire, sf, typeConv, lastReg, nq, negDone, cached>>

\* The calls that have Del(k) run between their queryFunc and their repo.Set.
DelSeen(k) ==
  [q \in Callers |-> IF pc[q] = "set" /\ key[q] = k THEN [did[q] EXCEPT !.del = TRUE]
                      ELSE did[q]]

\* Del that waits until no call is in flight for the key.
DelWaits(k) ==
  /\ repo[k] # NoEntry
  /\ sf[k].leader = 0
  /\ repo' = [repo EXCEPT ![k] = NoEntry]
  /\ negDone' = [negDone EXCEPT ![k] = "no"]
  /\ cached' = [cached EXCEPT ![k] = NoCached]
  /\ did' = DelSeen(k)
  /\ UNCHANGED <<expire, sf, typeConv, lastReg, pc, key, ctx, queryFunc, v, opt, to, from, err,
                 useCache, pend, miss, role, nq, out, seen>>

\* Cacher.Del(ctx, k): repo.Del(ctx, k), which removes the entry (on a key
\* without entry it changes nothing).
Del(k) ==
  /\ repo[k] # NoEntry
  /\ repo' = [repo EXCEPT ![k] = NoEntry]
  /\ negDone' = [negDone EXCEPT ![k] = "no"]
  /\ cached' = [cached EXCEPT ![k] = NoCached]
  /\ did' = DelSeen(k)
  /\ UNCHANGED <<expire, sf, typeConv, lastReg, pc, key, ctx, queryFunc, v, opt, to, from, err,
                 useCache, pend, miss, role, nq, out, seen>>

\* The Repo drops an entry whose expire has passed.
RepoExpire(k) ==
  /\ repo[k] # NoEntry
  /\ repo' = [repo EXCEPT ![k] = NoEntry]
  /\ negDone' = [negDone EXCEPT ![k] = "no"]
  /\ cached' = [cached EXCEPT ![k] = NoCached]
  /\ UNCHANGED <<expire, sf, typeConv, lastReg, pc, key, ctx, queryFunc, v, opt, to, from, err, useCache,
                 pend, miss, role, nq, did, out, seen>>

\* Cacher.RegisterConverter(conv): a converter without SrcType, DstType or Fn
\* is refused, any other replaces the registry's converter for its pair.
RegisterConverter(conv) ==
  /\ IF conv.SrcType = "nil" \/ conv.DstType = "nil" \/ conv.Fn = "nil"
       THEN UNCHANGED <<typeConv, lastReg>>
       ELSE /\ typeConv' = RegisterInto(typeConv, conv)
            /\ lastReg' = [lastReg EXCEPT ![<<conv.SrcType, conv.DstType>>] = conv.Fn]
  /\ UNCHANGED <<repo, expire, sf, pc, key, ctx, queryFunc, v, opt, to, from, err, useCache,
                 pend, miss, role, nq, did, out, negDone, cached, seen>>

Next ==
  \/ \E p \in Callers, k \in HotKeys, d \in Dsts, optFn \in OptFns, got \in BOOLEAN :
       GetWithOption(p, k, TRUE, d, optFn, got)
  \/ \E p \in Callers : SfDo(p)
  \/ \E p \in Callers, r \in QueryResults : \E j \in Jitter(opt[p].Expire) : Query(p, r, j)
  \/ \E p \in Callers, ok \in BOOLEAN : RepoSet(p, ok)
  \/ \E p \in Callers : SfDone(p)
  \/ \E p \in Callers : Coerce(p)
  \/ \E p \in Callers : Return(p)
  \/ \E k \in HotKeys : Del(k)
  \/ \E k \in HotKeys : RepoExpire(k)

Spec == Init /\ [][Next]_vars

\* One goroutine that makes every kind of call, one after the other: any key
\* (the empty one too), a queryFunc or nil, any optFn; between its calls it
\* registers converters.
CallKeys == {"", "k1"}

AllOptFns == OptFns \cup ExpireFns \cup ConverterFns

\* The converters it registers: for int to string and int to int (which
\* reflect converts), for string to int (in place of the default, and the
\* default's function again), and one without Fn.
RegConvs ==
  { Converter("int", "string", "Itoa"), Converter("int", "int", "Succ"),
    Converter("string", "int", "Answer"), Converter("string", "int", "Atoi"),
    Converter("string", "int", "nil") }

NextCall ==
  \/ \E k \in CallKeys, qf \in BOOLEAN, d \in Dsts, optFn \in AllOptFns, got \in BOOLEAN :
       GetWithOption(1, k, qf, d, optFn, got)
  \/ SfDo(1)
  \/ \E r \in QueryResults : \E j \in JitterFor(opt[1], r) : Query(1, r, j)
  \/ \E r \in QueryResults : QueryPanic(1, r)
  \/ \E ok \in BOOLEAN : RepoSet(1, ok)
  \/ SfDone(1)
  \/ Coerce(1)
  \/ Return(1)
  \/ \E k \in HotKeys : Del(k)
  \/ \E k \in HotKeys : RepoExpire(k)
  \/ \E conv \in RegConvs : pc[1] = "idle" /\ RegisterConverter(conv)

SpecCall == Init /\ [][NextCall]_vars

\* New(repo, e): it panics for e <= 0, and else returns the Cacher with
\* expire = e and the default converters registered.
New(e) ==
  IF e <= 0 THEN [panics |-> TRUE, expire |-> 0, typeConv |-> [pr \in TypePairs |-> NoConv]]
  ELSE [panics |-> FALSE, expire |-> e, typeConv |-> NewTypeConv]

\* The expire values New is called with.
NewExpires == {0 - 1, 0, DefaultExpire, LongExpire}

\* The state after New(repo, e) with an empty Repo, for every e: the Cacher,
\* or no Cacher (expire = 0, and the goroutines never get to call it) when
\* New panicked.
InitNew ==
  /\ \E e \in NewExpires :
       /\ expire = New(e).expire
       /\ typeConv = New(e).typeConv
       /\ pc = [p \in Callers |-> IF New(e).panics THEN "panic" ELSE "idle"]
       /\ lastReg = [pr \in TypePairs |->
                      IF New(e).panics THEN NoConv ELSE LastFor(typeConverters, pr)]
  /\ repo = [k \in Keys |-> NoEntry]
  /\ sf = [k \in Keys |-> NoCall]
  /\ key = [p \in Callers |-> ""]
  /\ queryFunc = [p \in Callers |-> FALSE]
  /\ ctx = [p \in Callers |-> "live"]
  /\ v = [p \in Callers |-> NoDst]
  /\ opt = [p \in Callers |-> NoOpt]
  /\ to = [p \in Callers |-> Nil]
  /\ from = [p \in Callers |-> Nil]
  /\ err = [p \in Callers |-> NoErr]
  /\ useCache = [p \in Callers |-> FALSE]
  /\ pend = [p \in Callers |-> NoEntry]
  /\ miss = [p \in Callers |-> FALSE]
  /\ role = [p \in Callers |-> "none"]
  /\ nq = [p \in Callers |-> 0]
  /\ did = [p \in Callers |-> NoDid]
  /\ out = [p \in Callers |-> "none"]
  /\ negDone = [k \in Keys |-> "no"]
  /\ cached = [k \in Keys |-> NoCached]
  /\ seen = [p \in Callers |-> FALSE]

SpecNew == InitNew /\ [][NextCall]_vars

\* The goroutines of Spec, each call on one of two keys, made by Get with an
\* int destination.
NextKeys ==
  \/ \E p \in Callers, k \in Keys, got \in BOOLEAN :
       GetWithOption(p, k, TRUE, Dst("typed", "int"), "nil", got)
  \/ \E p \in Callers : SfDo(p)
  \/ \E p \in Callers, r \in QueryResults : \E j \in JitterFor(opt[p], r) : Query(p, r, j)
  \/ \E p \in Callers, ok \in BOOLEAN : RepoSet(p, ok)
  \/ \E p \in Callers : SfDone(p)
  \/ \E p \in Callers : Coerce(p)
  \/ \E p \in Callers : Return(p)
  \/ \E k \in Keys : Del(k)

SpecKeys == Init /\ [][NextKeys]_vars

\* The goroutines of Spec calling on one key, each with a destination of its
\* own shape (int, string or bool) and with or without opt.Converters.
ShareDsts == { Dst("typed", t) : t \in Types }

ShareOptFns == {"nil", "convs"}

NextShare ==
  \/ \E p \in Callers, d \in ShareDsts, optFn \in ShareOptFns, got \in BOOLEAN :
       GetWithOption(p, "k1", TRUE, d, optFn, got)
  \/ \E p \in Callers : SfDo(p)
  \/ \E p \in Callers, r \in QueryResults : \E j \in JitterFor(opt[p], r) : Query(p, r, j)
  \/ \E p \in Callers, ok \in BOOLEAN : RepoSet(p, ok)
  \/ \E p \in Callers : SfDone(p)
  \/ \E p \in Callers : Coerce(p)
  \/ \E p \in Callers : Return(p)

SpecShare == Init /\ [][NextShare]_vars

\* The goroutines of Spec calling on one key with an int or a bool
\* destination, by Get or with the optFn whose converter for int to bool
\* fails; nothing deletes an entry and no entry expires.
StayDsts == { Dst("typed", "int"), Dst("typed", "bool") }

StayOptFns == {"nil", "convFail"}

NextStay ==
  \/ \E p \in Callers, d \in StayDsts, optFn \in StayOptFns, got \in BOOLEAN :
       GetWithOption(p, "k1", TRUE, d, optFn, got)
  \/ \E p \in Callers : SfDo(p)
  \/ \E p \in Callers, r \in QueryResults : \E j \in JitterFor(opt[p], r) : Query(p, r, j)
  \/ \E p \in Callers, ok \in BOOLEAN : RepoSet(p, ok)
  \/ \E p \in Callers : SfDone(p)
  \/ \E p \in Callers : Coerce(p)
  \/ \E p \in Callers : Return(p)

SpecStay == Init /\ [][NextStay]_vars

\* The conversion of goroutine q is about to look the pair up in c.typeConv
\* (line 254): it has a value, no converter of opt.Converters matches the
\* pair and reflect does not convert.
ReadsRegistry(q) ==
  /\ pc[q] = "coerce" /\ from[q] # Nil /\ ~(miss[q] /\ err[q] # NoErr)
  /\ FirstMatch(opt[q].Converters, 1, from[q].t, v[q].t) = 0
  /\ ~CanConvert(from[q], v[q].t)

\* Two goroutines are at c.typeConv at once, one of them writing it, with
\* nothing that orders them: a data race.
Race ==
  \E p \in Callers : \E q \in Callers \ {p} :
    pc[p] = "regwrite" /\ (pc[q] = "regwrite" \/ ReadsRegistry(q))

\* One outcome of the race: the Go runtime finds the map written while it is
\* read or written ("fatal error: concurrent map writes", "concurrent map
\* read and map write") and ends the process. The other outcomes are the two
\* orders of the accesses.
MapFault ==
  /\ Race
  /\ pc' = [p \in Callers |-> "fatal"]
  /\ UNCHANGED <<repo, expire, sf, typeConv, lastReg, key, ctx, queryFunc, v, opt, to, from,
                 err, useCache, pend, miss, role, nq, did, out, negDone, cached, seen>>

\* The goroutines of Spec calling on one key with a bool or an int
\* destination, by Get or with the optFn that registers OptFnConv.
RegDsts == { Dst("typed", "bool"), Dst("typed", "int") }

NextReg ==
  \/ \E p \in Callers, d \in RegDsts, optFn \in {"nil"} \cup RegFns, got \in BOOLEAN :
       GetWithOption(p, "k1", TRUE, d, optFn, got)
  \/ \E p \in Callers, got \in BOOLEAN : RegWrite(p, got)
  \/ MapFault
  \/ \E p \in Callers : SfDo(p)
  \/ \E p \in Callers, r \in QueryResults : \E j \in JitterFor(opt[p], r) : Query(p, r, j)
  \/ \E p \in Callers, ok \in BOOLEAN : RepoSet(p, ok)
  \/ \E p \in Callers : SfDone(p)
  \/ \E p \in Callers : Coerce(p)
  \/ \E p \in Callers : Return(p)

SpecReg == Init /\ [][NextReg]_vars

\* The caller cancels the ctx it gave to the call in progress. Nothing in
\* GetWithOption reads ctx: it is handed to repo.Get and repo.Set, and sf.Do
\* takes no ctx.
Cancel(p) ==
  /\ pc[p] \in {"sfdo", "wait", "query", "set", "sfdone", "coerce"}
  /\ ctx[p] = "live"
  /\ ctx' = [ctx EXCEPT ![p] = "canceled"]
  /\ UNCHANGED <<repo, expire, sf, typeConv, lastReg, pc, key, queryFunc, v, opt, to, from, err,
                 useCache, pend, miss, role, nq, did, out, negDone, cached, seen>>

\* The goroutines of Spec calling Get on one key with an int destination,
\* each free to cancel its ctx during the call.
NextCancel ==
  \/ \E p \in Callers, got \in BOOLEAN :
       GetWithOption(p, "k1", TRUE, Dst("typed", "int"), "nil", got)
  \/ \E p \in Callers : SfDo(p)
  \/ \E p \in Callers, r \in QueryResults : \E j \in JitterFor(opt[p], r) : Query(p, r, j)
  \/ \E p \in Callers, ok \in BOOLEAN : RepoSet(p, ok)
  \/ \E p \in Callers : SfDone(p)
  \/ \E p \in Callers : Coerce(p)
  \/ \E p \in Callers : Return(p)
  \/ \E p \in Callers : Cancel(p)

SpecCancel == Init /\ [][NextCancel]_vars

\* --------------------------------------------------------------- claims

Done(p) == pc[p] = "done"

\* The probe of the call returned an entry.
HitProbe(p) == ~miss[p] /\ from[p] # Nil

\* The call is made by Get: optFn is nil.
ByGet(p) == opt[p] = MakeOpt(expire, "nil")

\* C1: for N overlapping calls on a key absent from the Repo, queryFunc is
\* called exactly once in total: no call sees queryFunc called twice on its
\* key between its probe and the return of its sf.Do, and every call that
\* missed and is back from sf.Do shares an execution that called queryFunc.
C1_ProducerOnce ==
  \A p \in Callers :
    /\ nq[p] <= 1
    /\ (miss[p] /\ pc[p] \in {"coerce", "done"} => out[p] # "none")

\* C2: a miss episode (one execution of the closure under sf.Do) whose result
\* is a queried value or a cacheable "no data" issues exactly one repo.Set,
\* however many callers wait on it; one without such a result issues none,
\* and no waiter ever calls repo.Set.
C2_OneSetPerEpisode ==
  /\ \A k \in Keys :
       /\ sf[k].nset <= 1
       /\ (InFlight(k) /\ pc[sf[k].leader] = "sfdone") =>
            /\ sf[k].out \in {"value", "neg", "seterr"} => sf[k].nset = 1
            /\ sf[k].out \in {"error", "nodata"} => sf[k].nset = 0
  /\ \A p \in Callers : did[p].set => role[p] = "leader"

C2_Witness ==
  \E p, q \in Callers :
    /\ pc[p] = "sfdone" /\ pc[q] = "wait" /\ key[q] = key[p]
    /\ sf[key[p]].leader = p /\ sf[key[p]].out = "value" /\ sf[key[p]].nset = 1

\* C3: when an execution completes, every caller attached to it (the leader
\* and each caller waiting on the key) gets the same value and the same error
\* from sf.Do.
C3_SameResult ==
  [][ \A p \in Callers :
        (pc[p] = "sfdone" /\ pc'[p] = "coerce") =>
          \A q \in Callers :
            (pc[q] = "wait" /\ key[q] = key[p]) =>
              /\ pc'[q] = "coerce"
              /\ from'[q] = from'[p]
              /\ err'[q] = err'[p] ]_vars

C3_Witness ==
  \E p, q \in Callers :
    /\ pc[p] = "coerce" /\ role[p] = "leader"
    /\ pc[q] = "coerce" /\ role[q] = "waiter" /\ key[q] = key[p]
    /\ from[p] = IntV(55) /\ from[q] = IntV(55)

\* C4: for each key at most one execution of the closure (queryFunc, then
\* repo.Set) is in flight at any moment.
C4_OneInFlight ==
  \A k \in Keys :
    Cardinality({p \in Callers : key[p] = k /\ pc[p] \in {"query", "set", "sfdone"}}) <= 1

C4_Witness ==
  \E p, q \in Callers :
    /\ pc[p] = "set" /\ pc[q] = "wait" /\ key[q] = key[p]

\* C5 as stated: a call whose probe returned an entry returns useCache =
\* true and calls neither queryFunc nor repo.Set.
C5_HitUsesCache ==
  \A p \in Callers :
    (Done(p) /\ HitProbe(p)) => useCache[p] /\ ~did[p].query /\ ~did[p].set

\* C5 amended: a call whose probe returned an entry never enters sf.Do, calls
\* neither queryFunc nor repo.Set, and returns useCache = true when the
\* conversion succeeds and useCache = false with the error when it fails.
C5_HitUsesCacheUnlessError ==
  \A p \in Callers :
    (pc[p] \in {"coerce", "done"} /\ HitProbe(p)) =>
      /\ ~did[p].query /\ ~did[p].set /\ role[p] = "none"
      /\ Done(p) => (useCache[p] <=> err[p] = NoErr)

C5_Witness ==
  \E p, q \in Callers :
    /\ Done(p) /\ HitProbe(p) /\ useCache[p] /\ err[p] = NoErr
    /\ Done(q) /\ HitProbe(q) /\ ~useCache[q] /\ err[q] = "ErrUnsupported"

\* C6: the call returns useCache = true exactly when it returns a value that
\* came from its probe; every caller of a miss (leader or waiter) returns
\* false, also when the outcome is "no data, not cached".
C6_UseCacheIffProbe ==
  \A p \in Callers :
    Done(p) =>
      /\ useCache[p] <=> (HitProbe(p) /\ err[p] = NoErr)
      /\ miss[p] => ~useCache[p]
      /\ useCache[p] => (~did[p].query /\ out[p] = "none")

C6_Witness ==
  \E p, q \in Callers :
    /\ Done(p) /\ role[p] = "leader" /\ out[p] = "nodata" /\ ~useCache[p]
    /\ Done(q) /\ role[q] = "waiter" /\ out[q] = "nodata" /\ ~useCache[q]

\* C7: when the Repo has no entry, queryFunc returns nil, nil and the caching
\* of "no data" is off, the call returns (false, nil), calls no repo.Set and
\* leaves the destination as it was, a typed or an interface{} destination.
C7_NoDataLeavesDst ==
  \A p \in Callers :
    (Done(p) /\ role[p] = "leader" /\ out[p] = "nodata") =>
      /\ ~useCache[p] /\ err[p] = NoErr /\ ~did[p].set
      /\ v[p].val = Prior(v[p].t)

\* The value C8 expects in the Repo: opt.NilData, else the zero value.
NegValue(p) == IF opt[p].NilData # Nil THEN opt[p].NilData ELSE Zero(v[p].t)

\* What the destination holds once that value is converted to its shape:
\* the zero value as it is, the text "1" parsed (Atoi, ParseBool) or copied.
NegWritten(p) ==
  IF opt[p].NilData = Nil THEN Zero(v[p].t)
  ELSE CASE v[p].t = "int" -> IntV(1)
         [] v[p].t = "string" -> StrV("1")
         [] v[p].t = "bool" -> BoolV(TRUE)

\* C8: when the Repo has no entry, queryFunc returns nil, nil and the caching
\* of "no data" is on, the closure passes repo.Set the value opt.NilData if it
\* is set, else the zero value of the destination's shape, with the expire
\* NilCacheExpire exactly; the call gets that value from sf.Do, converts it
\* into the destination and returns useCache = false.
C8_NegativeEntry ==
  \A p \in Callers :
    /\ (pc[p] = "set" /\ sf[key[p]].out = "neg") =>
         /\ isCacheNil(opt[p])
         /\ pend[p] = [data |-> NegValue(p), expire |-> opt[p].NilCacheExpire]
    /\ (role[p] = "leader" /\ out[p] = "neg" /\ pc[p] \in {"coerce", "done"}) =>
         from[p] = NegValue(p)
    /\ (role[p] = "leader" /\ out[p] = "neg" /\ Done(p)) =>
         ~useCache[p] /\ err[p] = NoErr /\ v[p].val = NegWritten(p)

C8_Witness ==
  \E p \in Callers :
    /\ Done(p) /\ role[p] = "leader" /\ out[p] = "neg"
    /\ opt[p].NilData = StrV("1") /\ v[p].t = "int" /\ v[p].val = IntV(1)
    /\ repo[key[p]] = [data |-> StrV("1"), expire |-> NilTTL]

\* C9 as stated: a Get issued after a call that cached "no data" returned,
\* and before the entry is removed, hits the Repo (its repo.Get not failing),
\* returns useCache = true and does not call queryFunc.
C9_LaterGetHits ==
  \A p \in Callers :
    (Done(p) /\ seen[p] /\ err[p] # "ErrRepoGet") =>
      HitProbe(p) /\ useCache[p] /\ ~did[p].query

\* C9 amended: such a Get never misses, never enters sf.Do and never calls
\* queryFunc; its probe (repo.Get not failing) returns the entry, and it
\* returns useCache = true when the conversion of the entry succeeds and
\* useCache = false with the error when it fails.
C9_LaterGetHitsUnlessError ==
  \A p \in Callers :
    seen[p] =>
      /\ ~miss[p] /\ ~did[p].query /\ role[p] = "none"
      /\ (Done(p) /\ err[p] # "ErrRepoGet") =>
           /\ HitProbe(p)
           /\ useCache[p] <=> err[p] = NoErr

C9_Witness ==
  \E p \in Callers :
    /\ Done(p) /\ seen[p] /\ HitProbe(p) /\ useCache[p]
    /\ from[p] = StrV("") /\ v[p].val = StrV("")

\* C10: after a Get on an absent key returned a queried value, a Get on the
\* same key whose probe returns what that Get stored, with a destination of
\* the same shape, returns useCache = true, calls no queryFunc and writes the
\* value the first Get wrote.
C10_RoundTrip ==
  \A p \in Callers :
    (Done(p) /\ HitProbe(p) /\ ByGet(p)
       /\ cached[key[p]].src = from[p] /\ cached[key[p]].t = v[p].t) =>
      /\ useCache[p] /\ err[p] = NoErr /\ ~did[p].query
      /\ v[p].val = cached[key[p]].val

C10_Witness ==
  \E p \in Callers :
    /\ Done(p) /\ HitProbe(p) /\ ByGet(p) /\ useCache[p]
    /\ cached[key[p]] = [t |-> "string", val |-> StrV("7"), src |-> IntV(55)]
    /\ v[p] = [kind |-> "typed", t |-> "string", val |-> StrV("7")]

\* The call's arguments fail the checks of lines 157-170.
BadArgs(p) == key[p] = "" \/ ~queryFunc[p] \/ opt[p].Expire <= 0

\* C11: a call with an empty key, a nil queryFunc or an Expire <= 0 after
\* optFn ran returns at once with an error and useCache = false: it has
\* called neither repo.Get nor queryFunc nor repo.Set, and has not entered
\* sf.Do.
C11_BadArgsFailAtOnce ==
  \A p \in Callers :
    (pc[p] # "idle" /\ BadArgs(p)) =>
      /\ Done(p)
      /\ err[p] \in {"ErrKey", "ErrQueryFunc", "ErrExpire"}
      /\ ~useCache[p]
      /\ did[p] = NoDid /\ role[p] = "none" /\ out[p] = "none"
      /\ \A k \in Keys : sf[k].leader # p

C11_Witness ==
  \E p \in Callers :
    /\ Done(p) /\ key[p] = "k1" /\ queryFunc[p] /\ opt[p].Expire = 0
    /\ err[p] = "ErrExpire" /\ repo["k1"] # NoEntry

\* C12: a call whose probe repo.Get failed returns that error with useCache =
\* false at once: it makes no second repo.Get, calls neither queryFunc nor
\* repo.Set and does not enter sf.Do.
C12_ProbeErrorAborts ==
  \A p \in Callers :
    did[p].get = "err" =>
      /\ Done(p)
      /\ err[p] = "ErrRepoGet" /\ ~useCache[p]
      /\ ~did[p].query /\ ~did[p].set
      /\ role[p] = "none" /\ out[p] = "none"
      /\ \A k \in Keys : sf[k].leader # p

C12_Witness ==
  \E p \in Callers :
    /\ Done(p) /\ did[p].get = "err" /\ err[p] = "ErrRepoGet"
    /\ repo[key[p]] # NoEntry

\* The execution of key k ended with queryFunc's error.
Failed(k) == sf[k].out = "error"

\* C13: when queryFunc fails, the leader and every caller that waited on the
\* execution return queryFunc's error with useCache = false, the execution
\* issues no repo.Set, and its steps leave the Repo as it was.
C13_ProducerError ==
  /\ [](\A p \in Callers :
         /\ (out[p] = "error" /\ pc[p] \in {"coerce", "done"}) =>
              /\ err[p] = "ErrQuery"
              /\ ~did[p].set
              /\ Done(p) => ~useCache[p]
         /\ (pc[p] = "sfdone" /\ Failed(key[p])) =>
              /\ sf[key[p]].err = "ErrQuery" /\ sf[key[p]].nset = 0
              /\ ~did[p].set)
  /\ [][ \A p \in Callers :
          ( \/ pc[p] = "query" /\ pc'[p] = "sfdone" /\ Failed(key[p])'
            \/ pc[p] = "sfdone" /\ pc'[p] = "coerce" /\ Failed(key[p]) ) =>
            repo' = repo ]_vars

C13_Witness ==
  \E p, q \in Callers :
    /\ Done(p) /\ role[p] = "leader" /\ out[p] = "error" /\ err[p] = "ErrQuery"
    /\ Done(q) /\ role[q] = "waiter" /\ out[q] = "error" /\ err[q] = "ErrQuery"
    /\ key[q] = key[p]

\* What the destination holds when the conversion wrote nothing: a typed
\* destination its prior value, an interface{} destination the new zero value
\* of line 178.
Unwritten(p) == IF v[p].kind = "iface" THEN Zero(v[p].t) ELSE Prior(v[p].t)

\* C14: when repo.Set fails for a queried value or for a "no data" entry, the
\* leader and every caller that waited return that error with useCache =
\* false, and the conversion writes nothing into their destinations.
C14_SetErrorFatal ==
  \A p \in Callers :
    /\ (out[p] = "seterr" /\ pc[p] \in {"coerce", "done"}) =>
         /\ err[p] = "ErrRepoSet"
         /\ Done(p) => (~useCache[p] /\ v[p].val = Unwritten(p))
    /\ (pc[p] = "sfdone" /\ sf[key[p]].out = "seterr") =>
         sf[key[p]].err = "ErrRepoSet" /\ sf[key[p]].val = Nil

C14_Witness ==
  \E p, q \in Callers :
    /\ Done(p) /\ role[p] = "leader" /\ out[p] = "seterr" /\ err[p] = "ErrRepoSet"
    /\ pend[p].data = IntV(55)
    /\ Done(q) /\ role[q] = "waiter" /\ out[q] = "seterr" /\ err[q] = "ErrRepoSet"
    /\ key[q] = key[p] /\ v[q].val = Prior(v[q].t)

\* C15: for every Expire > 0, below ten units too, the expire the closure
\* passes to repo.Set for a queried value is at least Expire and less than
\* Expire + Expire/10, and the call does not panic.
C15_TtlInRange ==
  \A p \in Callers :
    /\ (pc[p] = "set" /\ sf[key[p]].out = "value") =>
         /\ opt[p].Expire <= pend[p].expire
         /\ pend[p].expire < opt[p].Expire + (opt[p].Expire \div 10)
    /\ pc[p] # "panic"

\* The call has converted a value (the entry, or what sf.Do returned) and
\* returned.
Coerced(p) == Done(p) /\ from[p] # Nil

\* The call returned what the converter function fn makes of its value: fn's
\* error, or fn's result in the destination (the zero value for a nil result).
ResolvedBy(p, fn) ==
  LET r == ApplyFn(fn, from[p]) IN
  IF r.err # NoErr THEN err[p] = r.err
  ELSE err[p] = NoErr /\ v[p].val = (IF r.val = Nil THEN Zero(v[p].t) ELSE r.val)

\* The places in opt.Converters of the converters for the call's pair.
CallMatches(p) ==
  { i \in DOMAIN opt[p].Converters :
      /\ opt[p].Converters[i].SrcType = from[p].t
      /\ opt[p].Converters[i].DstType = v[p].t }

\* C16: the conversion is resolved in this order, the first match deciding:
\* the first converter of opt.Converters for the exact pair (source type,
\* destination type); else reflect's conversion when the source converts to
\* the destination type; else the registry's converter for the pair; else
\* the unsupported conversion error.
C16_ResolutionOrder ==
  \A p \in Callers :
    Coerced(p) =>
      IF CallMatches(p) # {}
        THEN LET i == CHOOSE m \in CallMatches(p) : \A n \in CallMatches(p) : m <= n
             IN ResolvedBy(p, opt[p].Converters[i].Fn)
      ELSE IF CanConvert(from[p], v[p].t)
        THEN err[p] = NoErr /\ v[p].val = Convert(from[p], v[p].t)
      ELSE IF typeConv[<<from[p].t, v[p].t>>] # NoConv
        THEN ResolvedBy(p, typeConv[<<from[p].t, v[p].t>>])
      ELSE err[p] = "ErrUnsupported"

\* A converter of opt.Converters decided where the registry has a converter
\* for the same pair: the text "1" became 42, not 1.
C16_Witness ==
  \E p \in Callers :
    /\ Coerced(p) /\ from[p] = StrV("1") /\ v[p].t = "int"
    /\ opt[p].Converters # << >> /\ typeConv[<<"string", "int">>] = "Atoi"
    /\ err[p] = NoErr /\ v[p].val = IntV(42)

\* C17: when no converter and no conversion matches the pair, the call fails
\* with the unsupported conversion error, and when a matched converter
\* fails, with that error; in both cases useCache = false and the
\* destination, typed or interface{}, holds what it held before the call.
C17_FailedCoercionKeepsDst ==
  \A p \in Callers :
    (Coerced(p) /\ err[p] # NoErr) =>
      /\ err[p] \in {"ErrUnsupported", "ErrSyntax", "ErrConv"}
      /\ ~useCache[p]
      /\ v[p].val = Prior(v[p].t)

\* C18 as stated: a value of the destination's type is written to the
\* destination as it is, whatever opt.Converters and the registry hold.
C18_Idempotent ==
  \A p \in Callers :
    (Coerced(p) /\ from[p].t = v[p].t) =>
      err[p] = NoErr /\ v[p].val = from[p]

\* C18 amended: a value of the destination's type is written to the
\* destination as it is, whatever the registry holds, when opt.Converters
\* has no converter for the pair (type, type).
C18_IdempotentUnlessCallConverter ==
  \A p \in Callers :
    (Coerced(p) /\ from[p].t = v[p].t /\ CallMatches(p) = {}) =>
      err[p] = NoErr /\ v[p].val = from[p]

\* The registry has a converter for (int, int), which would make 56 of 55.
C18_Witness ==
  \E p \in Callers :
    /\ Coerced(p) /\ from[p] = IntV(55) /\ v[p].t = "int"
    /\ typeConv[<<"int", "int">>] = "Succ" /\ CallMatches(p) = {}
    /\ v[p].val = IntV(55)

\* C19: sf keeps nothing of an execution that completed: a key without a
\* call in flight has no record, a caller waits only on a call in flight, and
\* a call that misses and finds none in flight starts a new execution with an
\* empty record and calls its own queryFunc; what it returns is the result of
\* that execution, not an earlier error or "no data".
C19_NoResultKept ==
  /\ \A k \in Keys : ~InFlight(k) => sf[k] = NoCall
  /\ \A p \in Callers :
       /\ pc[p] = "wait" => (InFlight(key[p]) /\ sf[key[p]].leader # p)
       /\ pc[p] = "query" => sf[key[p]] = [NoCall EXCEPT !.leader = p]
       /\ (role[p] = "leader" /\ pc[p] \in {"set", "sfdone", "coerce", "done"}) =>
            did[p].query
       /\ (role[p] = "leader" /\ pc[p] = "sfdone") => sf[key[p]].leader = p

\* After an execution that ended with "no data", a second one on the same
\* key has called queryFunc again and got a value.
C19_Witness ==
  \E p, q \in Callers :
    /\ Done(p) /\ role[p] = "leader" /\ out[p] = "nodata"
    /\ pc[q] = "sfdone" /\ role[q] = "leader" /\ key[q] = key[p]
    /\ did[q].query /\ sf[key[q]].out = "value"

\* A step of goroutine p inside its call.
StepOf(p) ==
  \/ SfDo(p)
  \/ \E r \in QueryResults : \E j \in JitterFor(opt[p], r) : Query(p, r, j)
  \/ \E ok \in BOOLEAN : RepoSet(p, ok)
  \/ SfDone(p)
  \/ Coerce(p)
  \/ Return(p)

\* C20: a caller is blocked only in sf.Do, on a call in flight for its own
\* key that another caller leads; in every other place of its call it can
\* take its next step whatever the calls on other keys are doing, so that
\* executions for different keys are in flight together.
C20_KeysIndependent ==
  \A p \in Callers :
    /\ pc[p] = "wait" =>
         /\ sf[key[p]].leader \in Callers \ {p}
         /\ key[sf[key[p]].leader] = key[p]
         /\ pc[sf[key[p]].leader] \in {"query", "set", "sfdone"}
    /\ pc[p] \in {"sfdo", "query", "set", "sfdone", "coerce", "done"} => ENABLED StepOf(p)

\* Two executions in flight at once, one for each key, each past its
\* queryFunc.
C20_Witness ==
  \E p, q \in Callers :
    /\ key[p] = "k1" /\ pc[p] = "sfdone" /\ role[p] = "leader" /\ did[p].query
    /\ key[q] = "k2" /\ pc[q] = "set" /\ role[q] = "leader" /\ did[q].query

\* The closure of the call in flight for key k has returned: queryFunc was
\* called, and repo.Set too when the result is a value or a cacheable "no
\* data".
ClosureReturned(k) ==
  LET l == sf[k].leader IN
  /\ l \in Callers /\ pc[l] = "sfdone" /\ did[l].query
  /\ sf[k].out \in {"error", "nodata", "value", "neg", "seterr"}
  /\ sf[k].out \in {"value", "neg", "seterr"} => (did[l].set /\ sf[k].nset = 1)

\* C21: a caller attached to an execution leaves sf.Do only in the step that
\* follows the return of the closure, after its queryFunc and, when one is
\* issued, its repo.Set; a caller that is back from sf.Do holds the outcome
\* of a completed execution, and no caller is back while the leader is still
\* at queryFunc or repo.Set.
C21_ReturnAfterSet ==
  /\ [](\A q \in Callers :
         (role[q] # "none" /\ pc[q] \in {"coerce", "done"}) =>
           /\ out[q] \in {"error", "nodata", "value", "neg", "seterr"}
           /\ out[q] \in {"value", "neg"} => from[q] # Nil)
  /\ [][ \A q \in Callers :
          (pc[q] \in {"wait", "query", "set", "sfdone"} /\ pc'[q] \in {"coerce", "done"}) =>
            /\ ClosureReturned(key[q])
            /\ from'[q] = sf[key[q]].val /\ err'[q] = sf[key[q]].err ]_vars

\* A waiter is back with the value 55 that the Repo now holds.
C21_Witness ==
  \E q \in Callers :
    /\ role[q] = "waiter" /\ pc[q] = "coerce" /\ out[q] = "value"
    /\ from[q] = IntV(55) /\ repo[key[q]].data = IntV(55)

\* C22: a caller whose ctx is canceled stops waiting, that is a canceled
\* caller that waits in sf.Do can leave by a step of its own; and the
\* cancellation of one caller's ctx changes nothing for the others: no caller
\* whose own ctx is live returns the error of a canceled ctx.
C22_CancelIsLocal ==
  \A p \in Callers :
    /\ (pc[p] = "wait" /\ ctx[p] = "canceled") => ENABLED StepOf(p)
    /\ (Done(p) /\ ctx[p] = "live") => err[p] # "ErrCanceled"


\* C23: the callers of one execution share its value (or its error) and
\* nothing else: each converts the value it received, 55, into its own
\* destination by its own destination type and its own opt.Converters (an
\* int destination takes 55, a string destination "55" by the call's
\* converter and else reflect's "7", a bool destination has no conversion),
\* whatever the other callers' destinations, converters and outcomes are; a
\* failed conversion is the failure of that caller alone.
C23_OwnCoercion ==
  \A q \in Callers :
    (Done(q) /\ from[q] = IntV(55) /\ (miss[q] => out[q] = "value")) =>
      CASE v[q].t = "int" -> err[q] = NoErr /\ v[q].val = IntV(55)
        [] v[q].t = "string" ->
             /\ err[q] = NoErr
             /\ v[q].val = IF opt[q].Converters # << >> THEN StrV("55") ELSE StrV(RuneString(55))
        [] v[q].t = "bool" -> err[q] = "ErrUnsupported" /\ v[q].val = Unwritten(q)

\* The leader of an execution has failed to convert 55 into its bool
\* destination, and the waiter of the same execution ends with "55" in its
\* string destination.
C23_Witness ==
  \E p, q \in Callers :
    /\ Done(p) /\ role[p] = "leader" /\ out[p] = "value" /\ err[p] = "ErrUnsupported"
    /\ Done(q) /\ role[q] = "waiter" /\ out[q] = "value" /\ key[q] = key[p]
    /\ err[q] = NoErr /\ v[q].val = StrV("55")

\* RegisterConverter accepts conv.
Accepted(conv) == conv.SrcType # "nil" /\ conv.DstType # "nil" /\ conv.Fn # "nil"

\* C24: the registry has one place for each pair (source type, destination
\* type), holding one converter or none. A registration that is accepted
\* puts its converter in the place of its pair, over the one that was there,
\* and leaves every other pair as it was; nothing but a registration for the
\* pair changes what the pair holds, so that the lookup of a pair finds the
\* converter registered for it last.
C24_RegistryPerPair ==
  /\ [](DOMAIN typeConv = TypePairs)
  /\ [](\A pr \in TypePairs : typeConv[pr] = lastReg[pr])
  /\ [][
       /\ \A conv \in RegConvs :
            RegisterConverter(conv) =>
              IF Accepted(conv)
                THEN /\ typeConv'[<<conv.SrcType, conv.DstType>>] = conv.Fn
                     /\ \A pr \in TypePairs \ {<<conv.SrcType, conv.DstType>>} :
                          typeConv'[pr] = typeConv[pr]
                ELSE typeConv' = typeConv
       /\ \A pr \in TypePairs :
            typeConv'[pr] # typeConv[pr] =>
              \E c2 \in RegConvs :
                /\ RegisterConverter(c2) /\ Accepted(c2)
                /\ pr = <<c2.SrcType, c2.DstType>>
     ]_vars
  /\ [](\A p \in Callers :
         (Coerced(p) /\ CallMatches(p) = {} /\ ~CanConvert(from[p], v[p].t)
            /\ typeConv[<<from[p].t, v[p].t>>] # NoConv) =>
           ResolvedBy(p, typeConv[<<from[p].t, v[p].t>>]))

\* The default converter for string to int was replaced by a registered one,
\* which the lookup finds: the text "1" became 42; the pair int to string got
\* its converter and the default for string to bool is still there.
C24_Witness ==
  \E p \in Callers :
    /\ typeConv[<<"string", "int">>] = "Answer" /\ typeConv[<<"int", "string">>] = "Itoa"
    /\ typeConv[<<"string", "bool">>] = "ParseBool"
    /\ Coerced(p) /\ from[p] = StrV("1") /\ v[p].t = "int" /\ opt[p].Converters = << >>
    /\ err[p] = NoErr /\ v[p].val = IntV(42)

\* The call of goroutine p has built its Option.
HasOpt(p) == pc[p] \notin {"idle", "panic"} /\ key[p] # "" /\ queryFunc[p]

\* C25: New panics for expire <= 0, so that a Cacher's default expire is
\* positive, and no call changes it. The Option of every call starts from
\* Expire = the default, no NilData, NilCacheExpire = 0 (no caching of "no
\* data") and no converters: what the call's optFn did not set has these
\* values, and a queried value is set with the default expire unless optFn
\* gave another.
C25_DefaultExpire ==
  /\ [](\A e \in NewExpires : New(e).panics <=> e <= 0)
  /\ [](expire > 0 \/ \A p \in Callers : pc[p] = "panic")
  /\ [][expire' = expire]_vars
  /\ [](HasOpt(1) =>
         /\ opt[1].Expire \in {expire, 0 - 1, 0, ShortExpire, LongExpire}
         /\ opt[1].NilCacheExpire \in {0, NilTTL}
         /\ (opt[1].NilCacheExpire # 0 \/ opt[1].Converters # << >>) => opt[1].Expire = expire
         /\ opt[1].Expire # expire =>
              opt[1].NilCacheExpire = 0 /\ opt[1].NilData = Nil /\ opt[1].Converters = << >>
         /\ opt[1].NilCacheExpire = 0 => opt[1].NilData = Nil
         /\ (pc[1] = "set" /\ sf[key[1]].out = "value"
               /\ opt[1].Expire \notin {ShortExpire, LongExpire}) =>
              pend[1].expire \in expire .. expire + (expire \div 10))

\* On a Cacher made by New(repo, LongExpire), a call that switched the
\* caching of "no data" on is about to set a queried value with that expire.
C25_Witness ==
  /\ expire = LongExpire /\ expire # DefaultExpire
  /\ HasOpt(1) /\ opt[1].NilCacheExpire = NilTTL /\ opt[1].Expire = LongExpire
  /\ pc[1] = "set" /\ sf[key[1]].out = "value" /\ pend[1].expire >= LongExpire

\* A step of goroutine p inside its call, the closure's panic included.
StepLive(p) == StepOf(p) \/ \E r \in QueryResults : QueryPanic(p, r)

\* The goroutines of Spec calling on one key with an int destination, by Get
\* or with an optFn that sets Expire to ShortExpire. Every goroutine that can
\* take a step of its call takes one in the end: the Repo's operations and
\* queryFunc terminate, and the scheduler runs every goroutine.
NextLive ==
  \/ \E p \in Callers, optFn \in {"nil", "expireShort"}, got \in BOOLEAN :
       GetWithOption(p, "k1", TRUE, Dst("typed", "int"), optFn, got)
  \/ \E p \in Callers : SfDo(p)
  \/ \E p \in Callers, r \in QueryResults : \E j \in JitterFor(opt[p], r) : Query(p, r, j)
  \/ \E p \in Callers, r \in QueryResults : QueryPanic(p, r)
  \/ \E p \in Callers, ok \in BOOLEAN : RepoSet(p, ok)
  \/ \E p \in Callers : SfDone(p)
  \/ \E p \in Callers : Coerce(p)
  \/ \E p \in Callers : Return(p)

SpecLive == Init /\ [][NextLive]_vars /\ \A p \in Callers : WF_vars(StepLive(p))

\* The calls of NextLive by Get only, under the same fairness.
NextLiveGet ==
  \/ \E p \in Callers, got \in BOOLEAN :
       GetWithOption(p, "k1", TRUE, Dst("typed", "int"), "nil", got)
  \/ \E p \in Callers : StepOf(p)

SpecLiveGet == Init /\ [][NextLiveGet]_vars /\ \A p \in Callers : WF_vars(StepOf(p))

\* Every call that was made returns, and every caller that waits in sf.Do
\* is released.
EveryCallReturns ==
  \A p \in Callers :
    /\ (pc[p] \notin {"idle", "done"}) ~> Done(p)
    /\ (pc[p] = "wait") ~> (pc[p] = "coerce")

\* C26: when the Repo's operations and queryFunc terminate, every call
\* returns in the end and every waiter is released: a call that has not
\* returned is never left without a step to take, its own or, while it waits
\* in sf.Do, its leader's.
C26_NoCallStuck ==
  \A p \in Callers :
    (pc[p] \notin {"idle", "done"}) =>
      \/ ENABLED StepLive(p)
      \/ /\ pc[p] = "wait"
         /\ sf[key[p]].leader \in Callers \ {p}
         /\ ENABLED StepLive(sf[key[p]].leader)

\* The pair of the converter an optFn registers.
RegPair == <<OptFnConv.SrcType, OptFnConv.DstType>>

\* C27: a converter that a call's optFn registers with c.RegisterConverter is
\* in the registry when optFn returns, is found by the conversion of that
\* same call (55 becomes true in a bool destination) and stays in the
\* registry: the conversion of every later call finds it.
C27_OptFnRegisters ==
  /\ [](\A p \in Callers :
         (did[p].reg /\ pc[p] \notin {"idle", "regwrite", "fatal"}) =>
           typeConv[RegPair] = OptFnConv.Fn)
  /\ [](\A p \in Callers :
         (did[p].reg /\ Coerced(p) /\ v[p].t = "bool" /\ from[p] = IntV(55)) =>
           err[p] = NoErr /\ v[p].val = BoolV(TRUE))
  /\ [][ /\ typeConv[RegPair] = OptFnConv.Fn => typeConv'[RegPair] = OptFnConv.Fn
         /\ \A q \in Callers :
              (ReadsRegistry(q) /\ pc'[q] = "done" /\ typeConv[RegPair] = OptFnConv.Fn
                 /\ v[q].t = "bool" /\ from[q] = IntV(55)) =>
                err'[q] = NoErr /\ v'[q].val = BoolV(TRUE)
     ]_vars

\* A call by Get, made after a call whose optFn registered the converter,
\* has converted 55 to true, and before the registration a call by Get
\* fails with the unsupported conversion.
C27_Witness ==
  \E q \in Callers :
    /\ Coerced(q) /\ ~did[q].reg /\ v[q].t = "bool" /\ from[q] = IntV(55)
    /\ err[q] = NoErr /\ v[q].val = BoolV(TRUE)
    /\ \A p \in Callers : ~did[p].reg

\* C28: nothing orders the accesses to c.typeConv: a goroutine at the write
\* of RegisterConverter and a goroutine at the lookup of its conversion can
\* each take its step whatever the others are doing, so that a write is
\* reached together with another write or with a lookup, and then the
\* runtime's fault on the map is among the outcomes.
C28_RegistryUnsynchronized ==
  /\ \A p \in Callers :
       /\ pc[p] = "regwrite" => ENABLED (\E got \in BOOLEAN : RegWrite(p, got))
       /\ ReadsRegistry(p) => ENABLED Coerce(p)
  /\ Race => ENABLED MapFault

\* The write of one call's RegisterConverter is reached together with the
\* lookup of another call's conversion.
C28_Witness ==
  \E p \in Callers : \E q \in Callers \ {p} :
    /\ pc[p] = "regwrite" /\ ReadsRegistry(q) /\ v[q].t = "bool"
    /\ typeConv[RegPair] = NoConv


\* C29: in an execution that callers share, queryFunc, the Option and the
\* destination type behind the cached "no data" value are the leader's. A
\* waiter calls neither its queryFunc nor repo.Set. When the leader's Option
\* caches "no data", the waiter receives the leader's value (the leader's
\* NilData, else the zero value of the leader's destination type) and
\* converts it into its destination, whether or not its own Option caches
\* "no data"; when the leader's Option does not, a waiter whose Option does
\* returns (false, nil) with its destination as it was before the call.
C29_LeaderDecides ==
  /\ [](\A q \in Callers :
         (Done(q) /\ role[q] = "waiter") =>
           /\ ~did[q].query /\ ~did[q].set
           /\ (out[q] = "nodata" /\ isCacheNil(opt[q])) =>
                err[q] = NoErr /\ ~useCache[q] /\ v[q].val = Prior(v[q].t)
           /\ (out[q] = "neg" /\ ~isCacheNil(opt[q]) /\ from[q].t = v[q].t) =>
                err[q] = NoErr /\ ~useCache[q] /\ v[q].val = from[q])
  /\ [][ \A p \in Callers : \A q \in Callers \ {p} :
          (pc[p] = "sfdone" /\ pc[q] = "wait" /\ key[q] = key[p] /\ pc'[q] = "coerce") =>
            /\ sf[key[p]].out = "nodata" => (~isCacheNil(opt[p]) /\ from'[q] = Nil)
            /\ sf[key[p]].out = "neg" =>
                 /\ isCacheNil(opt[p]) /\ from'[q] = NegValue(p)
                 /\ pend[p] = [data |-> NegValue(p), expire |-> opt[p].NilCacheExpire]
     ]_vars

\* C29 but for the destination of a waiter that is told "no data": it is as
\* the code leaves it, an interface{} destination reset to the zero value.
LeaderDecidesButDst ==
  /\ [](\A q \in Callers :
         (Done(q) /\ role[q] = "waiter") =>
           /\ ~did[q].query /\ ~did[q].set
           /\ (out[q] = "nodata" /\ isCacheNil(opt[q])) =>
                err[q] = NoErr /\ ~useCache[q] /\ v[q].val = Unwritten(q)
           /\ (out[q] = "neg" /\ ~isCacheNil(opt[q]) /\ from[q].t = v[q].t) =>
                err[q] = NoErr /\ ~useCache[q] /\ v[q].val = from[q])
  /\ [][ \A p \in Callers : \A q \in Callers \ {p} :
          (pc[p] = "sfdone" /\ pc[q] = "wait" /\ key[q] = key[p] /\ pc'[q] = "coerce") =>
            /\ sf[key[p]].out = "nodata" => (~isCacheNil(opt[p]) /\ from'[q] = Nil)
            /\ sf[key[p]].out = "neg" =>
                 /\ isCacheNil(opt[p]) /\ from'[q] = NegValue(p)
                 /\ pend[p] = [data |-> NegValue(p), expire |-> opt[p].NilCacheExpire]
     ]_vars

\* Waiters whose Option disagrees with their leader's on the caching of "no
\* data": one that does not cache it holds the leader's cached value, one
\* that caches it was told "no data".
LeaderDecidesReached ==
  \/ \E q \in Callers :
       /\ Done(q) /\ role[q] = "waiter" /\ out[q] = "neg" /\ ~isCacheNil(opt[q])
       /\ v[q].val = StrV("1")
  \/ \E q \in Callers :
       /\ Done(q) /\ role[q] = "waiter" /\ out[q] = "nodata" /\ isCacheNil(opt[q])

\* C30: Del(k) is repo.Del(k) and nothing more: it touches neither the call
\* in flight for k nor any caller, and it never waits for one, being able to
\* run whenever the Repo has the entry. A repo.Set that succeeds leaves the
\* Repo with the value the closure got from queryFunc, also when Del ran after
\* that queryFunc returned.
C30_DelOnlyDeletes ==
  /\ [](\A k \in Keys : repo[k] # NoEntry => ENABLED Del(k))
  /\ [][ /\ \A k \in Keys :
              Del(k) => /\ repo'[k] = NoEntry
                        /\ \A k2 \in Keys \ {k} : repo'[k2] = repo[k2]
                        /\ UNCHANGED <<sf, pc, pend, from, err, v, to, typeConv>>
         /\ \A p \in Callers :
              (pc[p] = "set" /\ pc'[p] = "sfdone" /\ sf'[key[p]].out # "seterr") =>
                repo'[key[p]] = pend[p] /\ repo'[key[p]] # NoEntry
     ]_vars
  /\ [](\A p \in Callers :
         did[p].del => (did[p].query /\ pc[p] \in {"set", "sfdone"}))

\* Del ran between the queryFunc and the repo.Set of an execution, and after
\* both the Repo holds the queried value 55.
C30_Witness ==
  \E p \in Callers :
    /\ did[p].del /\ did[p].set /\ pc[p] = "sfdone" /\ sf[key[p]].out = "value"
    /\ repo[key[p]] = pend[p] /\ repo[key[p]].data = IntV(55)

\* The call of p missed, shared an execution that set a queried value, and
\* failed to convert it.
FailedAfterSet(p) ==
  /\ Done(p) /\ miss[p] /\ out[p] = "value"
  /\ err[p] \in {"ErrUnsupported", "ErrConv"}

\* C31: repo.Set is issued inside the closure, before any caller converts:
\* a caller that is at its conversion with a queried value comes from an
\* execution whose repo.Set was done, and the conversion leaves the Repo as it
\* is. So when a caller of a miss fails to convert (no conversion for the
\* pair, or a converter that fails), the Repo, which had no entry when the
\* call probed, holds the queried value; and a Get issued on the key after
\* that call finished, whose repo.Get answers, finds the entry and goes to
\* its conversion without sf.Do: it calls neither queryFunc nor repo.Set.
C31_SetBeforeCoercion ==
  /\ [](\A p \in Callers :
         (pc[p] \in {"coerce", "done"} /\ miss[p] /\ out[p] = "value") =>
           /\ from[p] # Nil
           /\ role[p] = "leader" => did[p].set)
  /\ [](\A p \in Callers :
         FailedAfterSet(p) => (~useCache[p] /\ repo[key[p]].data = from[p]))
  /\ [](\A q \in Callers :
         (pc[q] \in {"coerce", "done"} /\ HitProbe(q)) => (~did[q].query /\ ~did[q].set))
  /\ [][ /\ \A p \in Callers :
              (pc[p] = "coerce" /\ pc'[p] = "done") => repo' = repo
         /\ \A p \in Callers : \A q \in Callers \ {p} :
              (FailedAfterSet(p) /\ pc[q] = "idle" /\ pc'[q] # "idle"
                 /\ key'[q] = key[p] /\ did'[q].get = "ok") =>
                /\ pc'[q] = "coerce" /\ ~miss'[q]
                /\ from'[q] = from[p]
     ]_vars

\* A leader whose call missed, set 55 and failed with the error of its
\* converter, and a call that then found 55 by its probe and converted it
\* without a queryFunc call.
C31_Witness ==
  \E p \in Callers : \E q \in Callers \ {p} :
    /\ FailedAfterSet(p) /\ role[p] = "leader" /\ did[p].set /\ err[p] = "ErrConv"
    /\ repo[key[p]].data = IntV(55)
    /\ Done(q) /\ HitProbe(q) /\ did[q].get = "ok" /\ key[q] = key[p]
    /\ ~did[q].query /\ from[q] = IntV(55) /\ v[q].val = IntV(55) /\ useCache[q]

\* A waiter failed for want of a conversion while the value it shared stays
\* in the Repo.
FailedWaiterReached ==
  \E p \in Callers :
    /\ FailedAfterSet(p) /\ role[p] = "waiter" /\ err[p] = "ErrUnsupported"
    /\ repo[key[p]].data = IntV(55)
====
